---- MODULE Spec2Model ----
(***************************************************************************)
(* aristarchus: stylistic report over spaCy-annotated fiction.             *)
(*                                                                         *)
(* Strings are sequences of one-character strings, so that str.lower(),    *)
(* str.endswith(), str.strip(), str.join() and sorted() are computed       *)
(* character by character.  A Token is a record of the spaCy attributes    *)
(* the code reads; a sentence is a sequence of Tokens; a Doc is a sequence *)
(* of sentences; `for token in doc` iterates the concatenation.            *)
(***************************************************************************)
EXTENDS Integers, Sequences, FiniteSets, TLC

VARIABLES
    entry,                  \* the function the caller invoked
    language,               \* edit_fiction's language argument
    documents,              \* list[Doc]
    pc,                     \* position in the invoked function
    idx,                    \* position of the running loop in its stream
    nouns_n_verbs_lemmas, nouns_n_verbs_examples,
    adverbs_n_adjectives_lemmas, adverbs_n_adjectives_examples,
    sentence_lengths, openings, total_tokens, unique_lemmas,
    passive_sentence_texts,
    nouns_verbs_count, adjs_advs_count,
    avg_len, var_len, var_len_percentage, lexical_div, nv_to_aa_ratio,
    full_text,              \* the text handed to textstat
    scorer,                 \* which textstat call raised, once it was called
    result,                 \* the report text, as a sequence of lines
    token, verdict          \* a Token handed to the classifiers, and their answers

inputVars  == <<entry, language, documents>>
loopVars   == <<idx>>
aggVars    == <<nouns_n_verbs_lemmas, nouns_n_verbs_examples,
                adverbs_n_adjectives_lemmas, adverbs_n_adjectives_examples>>
sentVars   == <<sentence_lengths, openings, total_tokens, unique_lemmas,
                passive_sentence_texts>>
classVars  == <<nouns_verbs_count, adjs_advs_count>>
metricVars == <<avg_len, var_len, var_len_percentage, lexical_div, nv_to_aa_ratio>>
tokenVars  == <<token, verdict>>
vars == <<inputVars, pc, loopVars, aggVars, sentVars, classVars, metricVars,
          full_text, scorer, result, tokenVars>>

----------------------------------------------------------------------------
(* Characters and strings *)

\* The characters of the modelled alphabet, each run in code-point order.
Digits    == <<"0", "1", "2", "3", "4", "5", "6", "7", "8", "9">>
UpperCase == <<"A", "B", "C", "D", "E", "F", "G", "H", "I", "J", "K", "L", "M",
               "N", "O", "P", "Q", "R", "S", "T", "U", "V", "W", "X", "Y", "Z">>
LowerCase == <<"a", "b", "c", "d", "e", "f", "g", "h", "i", "j", "k", "l", "m",
               "n", "o", "p", "q", "r", "s", "t", "u", "v", "w", "x", "y", "z">>

Range(f) == {f[i] : i \in DOMAIN f}
IndexOf(f, c) == CHOOSE i \in DOMAIN f : f[i] = c

Chars == Range(Digits) \cup Range(UpperCase) \cup Range(LowerCase)
            \cup {" ", ".", "Ó", "Ú", "ó", "ú"}

\* Unicode code point of a character (Python's ord).
ord == [c \in Chars |->
          IF c \in Range(Digits) THEN 47 + IndexOf(Digits, c)
          ELSE IF c \in Range(UpperCase) THEN 64 + IndexOf(UpperCase, c)
          ELSE IF c \in Range(LowerCase) THEN 96 + IndexOf(LowerCase, c)
          ELSE CASE c = " " -> 32  [] c = "." -> 46
                 [] c = "Ó" -> 211 [] c = "Ú" -> 218
                 [] c = "ó" -> 243 [] c = "ú" -> 250]

chr(n) == CHOOSE c \in Chars : ord[c] = n

\* str.lower() on one character: A-Z and the Latin-1 capitals move up by 32.
lower_char == [c \in Chars |->
                 IF (ord[c] >= 65 /\ ord[c] <= 90)
                    \/ (ord[c] >= 192 /\ ord[c] <= 222 /\ ord[c] # 215)
                 THEN chr(ord[c] + 32)
                 ELSE c]

\* str.lower()
lower(s) == [k \in 1..Len(s) |-> lower_char[s[k]]]

\* str.endswith(suffix)
endswith(s, suffix) ==
    /\ Len(suffix) <= Len(s)
    /\ SubSeq(s, Len(s) - Len(suffix) + 1, Len(s)) = suffix

\* The whitespace characters of the modelled alphabet (str.isspace()).
isspace(c) == c = " "

\* str.strip(): drop leading and trailing whitespace.
RECURSIVE lstrip(_)
lstrip(s) == IF s # <<>> /\ isspace(Head(s)) THEN lstrip(Tail(s)) ELSE s

RECURSIVE rstrip(_)
rstrip(s) == IF s # <<>> /\ isspace(s[Len(s)])
             THEN rstrip(SubSeq(s, 1, Len(s) - 1)) ELSE s

strip(s) == rstrip(lstrip(s))

\* sep.join(parts)
RECURSIVE join(_, _)
join(sep, parts) ==
    IF parts = <<>> THEN <<>>
    ELSE IF Len(parts) = 1 THEN parts[1]
    ELSE parts[1] \o sep \o join(sep, Tail(parts))

\* s < t in Python's string order: lexicographic by code point.
RECURSIVE str_less(_, _)
str_less(s, t) ==
    IF t = <<>> THEN FALSE
    ELSE IF s = <<>> THEN TRUE
    ELSE IF s[1] = t[1] THEN str_less(Tail(s), Tail(t))
    ELSE ord[s[1]] < ord[t[1]]

----------------------------------------------------------------------------
(* Constants of main.py (aristarchus.constants re-exports the same tables) *)

MIN_COUNT_NOUNS_N_VERBS == 3
MIN_COUNT_ADVS_N_ADJS == 1

EXCLUDED_TAGS == {"DET"}

\* src/aristarchus/main.py:21-90
PORTUGUESE_EXCLUDED_ADV_ADJ ==
    { <<"a","l","g","u","m">>, <<"a","l","g","u","m","a">>, <<"a","l","g","u","m","a","s">>,
      <<"a","l","g","u","n","s">>, <<"a","n","t","e","r","i","o","r">>, <<"a","q","u","e","l","a">>,
      <<"a","q","u","e","l","a","s">>, <<"a","q","u","e","l","e">>, <<"a","q","u","e","l","e","s">>,
      <<"e","s","s","a">>, <<"e","s","s","a","s">>, <<"e","s","s","e">>,
      <<"e","s","s","e","s">>, <<"e","s","t","a">>, <<"e","s","t","a","s">>,
      <<"e","s","t","e">>, <<"e","s","t","e","s">>, <<"m","e","u">>,
      <<"m","e","u","s">>, <<"m","i","n","h","a">>, <<"m","i","n","h","a","s">>,
      <<"m","u","i","t","a">>, <<"m","u","i","t","a","s">>, <<"m","u","i","t","o">>,
      <<"m","u","i","t","o","s">>, <<"n","e","n","h","u","m">>, <<"n","e","n","h","u","m","a">>,
      <<"n","e","n","h","u","m","a","s">>, <<"n","e","n","h","u","n","s">>, <<"n","o","s","s","a">>,
      <<"n","o","s","s","a","s">>, <<"n","o","s","s","o">>, <<"n","o","s","s","o","s">>,
      <<"o","u","t","r","a">>, <<"o","u","t","r","a","s">>, <<"o","u","t","r","o">>,
      <<"o","u","t","r","o","s">>, <<"p","o","u","c","a">>, <<"p","o","u","c","a","s">>,
      <<"p","o","u","c","o">>, <<"p","o","u","c","o","s">>, <<"p","r","i","m","e","i","r","o">>,
      <<"p","r","ó","x","i","m","o">>, <<"q","u","a","i","s","q","u","e","r">>, <<"q","u","a","l","q","u","e","r">>,
      <<"s","e","g","u","n","d","a">>, <<"s","e","u">>, <<"s","e","u","s">>,
      <<"s","u","a">>, <<"s","u","a","s">>, <<"t","a","n","t","a">>,
      <<"t","a","n","t","a","s">>, <<"t","a","n","t","o">>, <<"t","a","n","t","o","s">>,
      <<"t","e","r","c","e","i","r","o">>, <<"t","e","u">>, <<"t","e","u","s">>,
      <<"t","o","d","a">>, <<"t","o","d","a","s">>, <<"t","o","d","o">>,
      <<"t","o","d","o","s">>, <<"t","u","a">>, <<"t","u","a","s">>,
      <<"v","o","s","s","a">>, <<"v","o","s","s","a","s">>, <<"v","o","s","s","o">>,
      <<"v","o","s","s","o","s">>, <<"ú","l","t","i","m","o">> }

\* src/aristarchus/main.py:91-141
ENGLISH_EXCLUDED_ADV_ADJ ==
    { <<"a">>, <<"a","l","l">>, <<"a","n">>,
      <<"a","n","o","t","h","e","r">>, <<"a","n","y">>, <<"b","o","t","h">>,
      <<"d","i","f","f","e","r","e","n","t">>, <<"d","o","u","b","l","e">>, <<"e","a","c","h">>,
      <<"e","i","t","h","e","r">>, <<"e","n","o","u","g","h">>, <<"e","v","e","r","y">>,
      <<"f","e","w">>, <<"f","i","r","s","t">>, <<"h","e","r">>,
      <<"h","i","s">>, <<"i","t","s">>, <<"l","a","s","t">>,
      <<"l","e","a","s","t">>, <<"l","e","s","s">>, <<"l","i","t","t","l","e">>,
      <<"m","a","n","y">>, <<"m","o","r","e">>, <<"m","o","s","t">>,
      <<"m","u","c","h">>, <<"m","y">>, <<"n","e","i","t","h","e","r">>,
      <<"n","e","x","t">>, <<"o","n","e">>, <<"o","t","h","e","r">>,
      <<"o","u","r">>, <<"p","r","e","v","i","o","u","s">>, <<"s","a","m","e">>,
      <<"s","e","c","o","n","d">>, <<"s","e","v","e","r","a","l">>, <<"s","i","n","g","l","e">>,
      <<"s","o","m","e">>, <<"s","u","c","h">>, <<"t","h","a","t">>,
      <<"t","h","e">>, <<"t","h","e","i","r">>, <<"t","h","e","s","e">>,
      <<"t","h","i","r","d">>, <<"t","h","i","s">>, <<"t","h","o","s","e">>,
      <<"t","h","r","e","e">>, <<"t","r","i","p","l","e">>, <<"t","w","o">>,
      <<"y","o","u","r">> }

\* src/aristarchus/main.py:142-144
EXCLUDED_MENTE_ADVERBS ==
    { <<"s","o","m","e","n","t","e">> }

\* src/aristarchus/main.py:145-180
EXCLUDED_LY_ADVERBS ==
    { <<"a","b","s","o","l","u","t","e","l","y">>, <<"a","c","t","u","a","l","l","y">>, <<"b","a","s","i","c","a","l","l","y">>,
      <<"c","e","r","t","a","i","n","l","y">>, <<"c","o","m","p","l","e","t","e","l","y">>, <<"c","u","r","r","e","n","t","l","y">>,
      <<"d","e","f","i","n","i","t","e","l","y">>, <<"e","a","r","l","y">>, <<"e","n","t","i","r","e","l","y">>,
      <<"e","x","a","c","t","l","y">>, <<"f","i","n","a","l","l","y">>, <<"f","o","r","m","e","r","l","y">>,
      <<"f","u","l","l","y">>, <<"g","e","n","e","r","a","l","l","y">>, <<"g","r","a","d","u","a","l","l","y">>,
      <<"i","m","m","e","d","i","a","t","e","l","y">>, <<"i","n","i","t","i","a","l","l","y">>, <<"l","i","k","e","l","y">>,
      <<"n","o","r","m","a","l","l","y">>, <<"o","n","l","y">>, <<"o","r","i","g","i","n","a","l","l","y">>,
      <<"p","e","r","f","e","c","t","l","y">>, <<"p","o","s","s","i","b","l","y">>, <<"p","r","e","v","i","o","u","s","l","y">>,
      <<"p","r","o","b","a","b","l","y">>, <<"q","u","i","c","k","l","y">>, <<"r","e","a","l","l","y">>,
      <<"r","e","c","e","n","t","l","y">>, <<"s","i","m","p","l","y">>, <<"s","l","o","w","l","y">>,
      <<"s","u","d","d","e","n","l","y">>, <<"t","o","t","a","l","l","y">>, <<"t","y","p","i","c","a","l","l","y">>,
      <<"u","s","u","a","l","l","y">> }


----------------------------------------------------------------------------
(* Token classifiers, word_processing.py *)

\* token.pos_ in ["NOUN", "VERB"]
is_content_word(t) == t.pos_ \in {"NOUN", "VERB"}

\* is_adverb_of_manner without its part-of-speech test.
is_adverb_of_manner_any_pos(t) ==
    IF endswith(lower(t.text), <<"m","e","n","t","e">>)
    THEN lower(t.lemma_) \notin EXCLUDED_MENTE_ADVERBS
    ELSE IF endswith(lower(t.text), <<"l","y">>)
         THEN lower(t.lemma_) \notin EXCLUDED_LY_ADVERBS
    ELSE FALSE

\* is_adverb_of_manner looking the lemma up as the lemmatizer cased it.
is_adverb_of_manner_lemma_as_is(t) ==
    IF t.pos_ # "ADV" THEN FALSE
    ELSE IF endswith(lower(t.text), <<"m","e","n","t","e">>)
         THEN t.lemma_ \notin EXCLUDED_MENTE_ADVERBS
    ELSE IF endswith(lower(t.text), <<"l","y">>)
         THEN t.lemma_ \notin EXCLUDED_LY_ADVERBS
    ELSE FALSE

is_adverb_of_manner(t) ==
    IF t.pos_ # "ADV" THEN FALSE
    ELSE IF endswith(lower(t.text), <<"m","e","n","t","e">>)
         THEN lower(t.lemma_) \notin EXCLUDED_MENTE_ADVERBS
    ELSE IF endswith(lower(t.text), <<"l","y">>)
         THEN lower(t.lemma_) \notin EXCLUDED_LY_ADVERBS
    ELSE FALSE

is_adjective_of_quality(t) ==
    IF t.pos_ # "ADJ" THEN FALSE
    ELSE LET excluded_lemmas == PORTUGUESE_EXCLUDED_ADV_ADJ \cup ENGLISH_EXCLUDED_ADV_ADJ
         IN  t.tag_ \notin EXCLUDED_TAGS /\ lower(t.lemma_) \notin excluded_lemmas

----------------------------------------------------------------------------
(* spaCy tokens *)

Letters == Range(UpperCase) \cup Range(LowerCase) \cup {"Ó", "Ú", "ó", "ú"}

\* A spaCy Token: the attributes the code reads.  The three flags are
\* spaCy's lexical attributes, which are functions of the surface text.
Token(text, lemma_, pos_, tag_, dep_, whitespace_) ==
    [text |-> text, lemma_ |-> lemma_, pos_ |-> pos_, tag_ |-> tag_,
     dep_ |-> dep_, whitespace_ |-> whitespace_,
     is_alpha |-> text # <<>> /\ \A k \in 1..Len(text) : text[k] \in Letters,
     is_punct |-> text # <<>> /\ \A k \in 1..Len(text) : text[k] = ".",
     is_space |-> text # <<>> /\ \A k \in 1..Len(text) : isspace(text[k])]

\* Surface forms and lemmas handed to the classifiers.
TokenTexts ==
    { <<"r","a","p","i","d","a","m","e","n","t","e">>,
      <<"R","A","P","I","D","A","M","E","N","T","E">>,
      <<"s","o","m","e","n","t","e">>,
      <<"S","o","m","e","n","t","e">>,
      <<"m","e","n","t","e">>,
      <<"s","a","d","l","y">>,
      <<"S","a","d","L","Y">>,
      <<"q","u","i","c","k","l","y">>,
      <<"l","y">>,
      <<"f","a","s","t">>,
      <<"b","e","l","o">>,
      <<"Ú","l","t","i","m","o">>,
      <<"e","s","t","e">>,
      <<"4","2">> }

TokenLemmas ==
    { <<"r","a","p","i","d","a","m","e","n","t","e">>,
      <<"s","o","m","e","n","t","e">>,
      <<"S","O","M","E","N","T","E">>,
      <<"s","a","d","l","y">>,
      <<"q","u","i","c","k","l","y">>,
      <<"Q","u","i","c","k","l","y">>,
      <<"f","a","s","t">>,
      <<"b","e","l","o">>,
      <<"Ú","L","T","I","M","O">>,
      <<"e","s","t","e">>,
      <<"T","h","e">> }

CoarseTags == {"NOUN", "VERB", "ADJ", "ADV", "DET", "NUM"}
FineTags   == {"DET", "JJ", "RB"}
Languages  == {"pt", "en"}

TokenUniverse ==
    { Token(text, lemma_, pos_, tag_, "dep", <<>>) :
        text \in TokenTexts, lemma_ \in TokenLemmas,
        pos_ \in CoarseTags, tag_ \in FineTags }

NoToken   == [text |-> <<>>]
NotCalled == [called |-> FALSE, raised_at |-> 0]
NoVerdict == [content |-> FALSE, manner |-> FALSE, quality |-> FALSE, asked |-> FALSE]

----------------------------------------------------------------------------
(* Numbers.  A value is an exact rational, the root of one (pstdev), the   *)
(* float infinity, or the exception an arithmetic operation raises.        *)

RECURSIVE gcd(_, _)
gcd(a, b) == IF b = 0 THEN a ELSE gcd(b, a % b)

Frac(n, d) == LET g == gcd(n, d) IN [kind |-> "num", num |-> n \div g, den |-> d \div g]
Root(n, d) == LET g == gcd(n, d) IN [kind |-> "root", num |-> n \div g, den |-> d \div g]
Zero     == [kind |-> "num", num |-> 0, den |-> 1]
Infinity == [kind |-> "inf"]
Fault    == [kind |-> "fault"]
Unset    == [kind |-> "unset"]

\* Python truthiness of a number: anything but zero.
truthy(x) == ~(x.kind \in {"num", "root"} /\ x.num = 0)

RECURSIVE sum(_)
sum(xs) == IF xs = <<>> THEN 0 ELSE Head(xs) + sum(Tail(xs))

\* a / b on two ints; ZeroDivisionError when b is 0.
int_div(a, b) == IF b = 0 THEN Fault ELSE Frac(a, b)

\* statistics.mean; StatisticsError on no data.
mean(xs) == IF xs = <<>> THEN Fault ELSE Frac(sum(xs), Len(xs))

\* statistics.pstdev: the root of the population variance
\* (n * sum(x^2) - sum(x)^2) / n^2; StatisticsError on no data.
pstdev(xs) ==
    IF xs = <<>> THEN Fault
    ELSE LET n == Len(xs)
             squares == [k \in 1..n |-> xs[k] * xs[k]]
         IN  Root(n * sum(squares) - sum(xs) * sum(xs), n * n)

\* var_len / avg_len * 100 where var_len is a root and avg_len a rational:
\* the root of var * 100^2 / avg^2; ZeroDivisionError when avg_len is 0.
root_over_mean_times_100(v, m) ==
    IF v.kind = "fault" \/ m.kind = "fault" \/ m.num = 0 THEN Fault
    ELSE Root(v.num * 10000 * m.den * m.den, v.den * m.num * m.num)

----------------------------------------------------------------------------
(* collections.Counter: an insertion-ordered list of (key, count) items *)

counter_keys(c) == {c[k].key : k \in 1..Len(c)}

\* c[key]: 0 for a missing key.
counter_get(c, key) ==
    IF key \in counter_keys(c)
    THEN c[CHOOSE k \in 1..Len(c) : c[k].key = key].count
    ELSE 0

\* c[key] += 1
counter_incr(c, key) ==
    IF key \in counter_keys(c)
    THEN [k \in 1..Len(c) |->
            IF c[k].key = key THEN [key |-> key, count |-> c[k].count + 1] ELSE c[k]]
    ELSE Append(c, [key |-> key, count |-> 1])

\* Counter(iterable)
RECURSIVE Counter(_)
Counter(xs) ==
    IF xs = <<>> THEN <<>>
    ELSE counter_incr(Counter(SubSeq(xs, 1, Len(xs) - 1)), xs[Len(xs)])

\* Counter.most_common(): sorted(items, key=count, reverse=True), which is
\* stable, so items of equal count stay in insertion order.
RECURSIVE most_common(_)
most_common(c) ==
    IF c = <<>> THEN <<>>
    ELSE LET rest == most_common(SubSeq(c, 1, Len(c) - 1))
             item == c[Len(c)]
             p    == Cardinality({k \in 1..Len(rest) : rest[k].count >= item.count})
         IN  SubSeq(rest, 1, p) \o <<item>> \o SubSeq(rest, p + 1, Len(rest))

----------------------------------------------------------------------------
(* Report lines.  The report is text; a line is kept as the section it     *)
(* belongs to, what it is, and the values formatted into it.               *)

Line(section, kind, data) == [section |-> section, kind |-> kind, data |-> data]

RECURSIVE flatten(_)
flatten(seqs) == IF seqs = <<>> THEN <<>> ELSE Head(seqs) \o flatten(Tail(seqs))

----------------------------------------------------------------------------
(* text_analysis.py *)

\* detect_passive_voice taking an active subject for a passive one as well.
detect_passive_voice_any_subject(tokens) ==
    \E k \in 1..Len(tokens) : tokens[k].dep_ \in {"nsubj", "nsubjpass"}

detect_passive_voice(tokens) ==
    \E k \in 1..Len(tokens) : tokens[k].dep_ = "nsubjpass"

\* extract_sentence_opening keyed on the first lemma alone.
extract_sentence_opening_first_only(tokens) ==
    IF tokens # <<>> THEN lower(tokens[1].lemma_) ELSE <<>>

extract_sentence_opening(tokens) ==
    IF Len(tokens) >= 2
    THEN lower(join(<<" ">>, <<tokens[1].lemma_, tokens[2].lemma_>>))
    ELSE IF tokens # <<>> THEN lower(tokens[1].lemma_)
    ELSE <<>>

\* [t for t in sent if not t.is_punct and not t.is_space]
content_tokens(sent) == SelectSeq(sent, LAMBDA t : ~t.is_punct /\ ~t.is_space)

\* sent.text: every token's text followed by its trailing whitespace.
sent_text(sent) == flatten([k \in 1..Len(sent) |-> sent[k].text \o sent[k].whitespace_])

\* The body of analyze_sentences' loop, on the accumulators as a record.
analyze_sentence(acc, sent) ==
    LET tokens  == content_tokens(sent)
        opening == extract_sentence_opening(tokens)
    IN  [sentence_lengths |-> Append(acc.sentence_lengths, Len(tokens)),
         total_tokens     |-> acc.total_tokens + Len(tokens),
         unique_lemmas    |-> acc.unique_lemmas \cup
                                {lower(tokens[k].lemma_) :
                                    k \in {n \in 1..Len(tokens) : tokens[n].is_alpha}},
         passive_sentence_texts |->
             IF detect_passive_voice(tokens)
             THEN Append(acc.passive_sentence_texts, strip(sent_text(sent)))
             ELSE acc.passive_sentence_texts,
         openings |-> IF opening # <<>> THEN counter_incr(acc.openings, opening)
                      ELSE acc.openings]

\* format_repeated_openings listing an opening from its second occurrence on.
format_repeated_openings_from_two(c) ==
    LET ranked == most_common(c)
        kept   == SelectSeq(ranked, LAMBDA item : item.count >= 2)
    IN  <<Line("openings", "header", <<>>)>>
        \o [k \in 1..Len(kept) |-> Line("openings", "entry", <<kept[k].key, kept[k].count>>)]
        \o <<Line("openings", "blank", <<>>)>>

format_repeated_openings(c) ==
    LET ranked == most_common(c)
        kept   == SelectSeq(ranked, LAMBDA item : item.count > 2)
    IN  <<Line("openings", "header", <<>>)>>
        \o [k \in 1..Len(kept) |-> Line("openings", "entry", <<kept[k].key, kept[k].count>>)]
        \o <<Line("openings", "blank", <<>>)>>

----------------------------------------------------------------------------
(* word_processing.py *)

\* record_token keeping the surface form as written.
record_token_surface_as_is(agg, t) ==
    LET lemma == t.lemma_
        word_examples == IF lemma \notin DOMAIN agg.word_examples
                         THEN agg.word_examples @@ (lemma :> <<>>)
                         ELSE agg.word_examples
    IN  [lemmas |-> Append(agg.lemmas, lemma),
         word_examples |-> [word_examples EXCEPT ![lemma] = Append(@, t.text)]]

\* The body both aggregation loops run on a matching token.
record_token(agg, t) ==
    LET lemma == t.lemma_
        original_word == lower(t.text)
        word_examples == IF lemma \notin DOMAIN agg.word_examples
                         THEN agg.word_examples @@ (lemma :> <<>>)
                         ELSE agg.word_examples
    IN  [lemmas |-> Append(agg.lemmas, lemma),
         word_examples |-> [word_examples EXCEPT ![lemma] = Append(@, original_word)]]

\* One iteration of process_tokens_for_docs_n_gramatical_functions_with_examples.
process_token_for_gramatical_functions(agg, t, gram_funcs) ==
    IF t.pos_ \in gram_funcs THEN record_token(agg, t) ELSE agg

\* One iteration of process_manner_adverbs_and_quality_adjectives_with_examples.
process_manner_adverb_or_quality_adjective(agg, t) ==
    IF is_adverb_of_manner(t) \/ is_adjective_of_quality(t)
    THEN record_token(agg, t) ELSE agg

\* analyze_word_classes telling content words by the fine-grained tag.
RECURSIVE analyze_word_classes_by_tag(_)
analyze_word_classes_by_tag(tokens) ==
    IF tokens = <<>> THEN [nouns_verbs_count |-> 0, adjs_advs_count |-> 0]
    ELSE LET before == analyze_word_classes_by_tag(SubSeq(tokens, 1, Len(tokens) - 1))
             t == tokens[Len(tokens)]
         IN  IF t.tag_ \in {"NOUN", "VERB"}
             THEN [before EXCEPT !.nouns_verbs_count = @ + 1]
             ELSE IF is_adverb_of_manner(t) \/ is_adjective_of_quality(t)
             THEN [before EXCEPT !.adjs_advs_count = @ + 1]
             ELSE before

\* analyze_word_classes over the tokens of all documents, in order.
RECURSIVE analyze_word_classes(_)
analyze_word_classes(tokens) ==
    IF tokens = <<>> THEN [nouns_verbs_count |-> 0, adjs_advs_count |-> 0]
    ELSE LET before == analyze_word_classes(SubSeq(tokens, 1, Len(tokens) - 1))
             t == tokens[Len(tokens)]
         IN  IF t.pos_ \in {"NOUN", "VERB"}
             THEN [before EXCEPT !.nouns_verbs_count = @ + 1]
             ELSE IF is_adverb_of_manner(t) \/ is_adjective_of_quality(t)
             THEN [before EXCEPT !.adjs_advs_count = @ + 1]
             ELSE before

\* set(xs) of a list
to_set(xs) == {xs[k] : k \in 1..Len(xs)}

\* sorted(S) of a set of strings
RECURSIVE sorted(_)
sorted(S) ==
    IF S = {} THEN <<>>
    ELSE LET least == CHOOSE x \in S : \A y \in S \ {x} : str_less(x, y)
         IN  <<least>> \o sorted(S \ {least})

format_word_counts_with_examples(title, counter, word_examples, min_count) ==
    LET kept == SelectSeq(counter, LAMBDA item : item.count > min_count)
    IN  <<Line(title, "header", <<>>)>>
        \o [k \in 1..Len(kept) |->
              Line(title, "row",
                   <<kept[k].key, kept[k].count,
                     join(<<",", " ">>, sorted(to_set(word_examples[kept[k].key])))>>)]
        \o <<Line(title, "blank", <<>>)>>

----------------------------------------------------------------------------
(* metrics.py, and the same arithmetic in main.py's _compute_stylistic_metrics *)

\* avg_len
compute_avg_len(lengths) == IF lengths # <<>> THEN mean(lengths) ELSE Zero

\* var_len
compute_var_len(lengths) == IF Len(lengths) > 1 THEN pstdev(lengths) ELSE Zero

\* var_len_percentage computed whatever the mean is.
compute_var_len_percentage_unguarded(v, m) == root_over_mean_times_100(v, m)

\* var_len_percentage
compute_var_len_percentage(v, m) ==
    IF truthy(m) THEN root_over_mean_times_100(v, m) ELSE Zero

\* lexical_div with the quotient inverted.
compute_lexical_div_inverted(lemmas, tokens_total) ==
    IF tokens_total # 0 THEN int_div(tokens_total, Cardinality(lemmas)) ELSE Zero

\* lexical_div
compute_lexical_div(lemmas, tokens_total) ==
    IF tokens_total # 0 THEN int_div(Cardinality(lemmas), tokens_total) ELSE Zero

\* nv_to_aa_ratio falling back to 0 whenever there is no descriptor.
compute_nv_to_aa_ratio_zero_fallback(nv, aa) ==
    IF aa > 0 THEN int_div(nv, aa) ELSE Zero

\* nv_to_aa_ratio
compute_nv_to_aa_ratio(nv, aa) ==
    IF aa > 0 THEN int_div(nv, aa)
    ELSE IF nv > 0 THEN Infinity ELSE Zero

\* The "Stylistic Metrics:" block; the ideal ranges printed beside each
\* value are fixed text and differ between main.py and metrics.py.
stylistic_metrics_block(avg, var, pct, div, ratio) ==
    << Line("metrics", "header", <<>>),
       Line("metrics", "avg_len", <<avg>>),
       Line("metrics", "var_len", <<var, pct>>),
       Line("metrics", "lexical_div", <<div>>),
       Line("metrics", "nv_to_aa_ratio", <<ratio>>),
       Line("metrics", "blank", <<>>) >>

\* The "Passive voice sentences:" block, only when there is a sentence.
passive_voice_block(texts) ==
    IF texts # <<>>
    THEN <<Line("passive", "header", <<>>)>>
         \o [k \in 1..Len(texts) |-> Line("passive", "bullet", <<texts[k]>>)]
         \o <<Line("passive", "blank", <<>>)>>
    ELSE <<>>

\* The six textstat calls, in the order the dict literal makes them.
ReadabilityIndices ==
    << "Flesch Reading Ease", "Flesch-Kincaid Grade", "Gunning Fog Index",
       "SMOG Index", "Coleman-Liau Index", "Automated Readability Index" >>

\* _compute_readability_metrics without its try/except: the exception of
\* a failing textstat call leaves the function.
compute_readability_metrics_uncaught(raised_at) ==
    IF raised_at = 0
    THEN [raised |-> FALSE,
          text |-> <<Line("readability", "header", <<>>)>>
                   \o [k \in 1..Len(ReadabilityIndices) |->
                         Line("readability", "index", <<ReadabilityIndices[k]>>)]
                   \o <<Line("readability", "blank", <<>>)>>]
    ELSE [raised |-> TRUE, text |-> <<>>]

\* _compute_readability_metrics(full_text), where textstat call number
\* raised_at raises (0: none does).  The dict of all six scores is built
\* before any line is written, so a failing call leaves only the header.
compute_readability_metrics(raised_at) ==
    [raised |-> FALSE,
     text |-> <<Line("readability", "header", <<>>)>>
              \o (IF raised_at = 0
                  THEN [k \in 1..Len(ReadabilityIndices) |->
                          Line("readability", "index", <<ReadabilityIndices[k]>>)]
                  ELSE <<Line("readability", "placeholder", <<ReadabilityIndices[raised_at]>>)>>)
              \o <<Line("readability", "blank", <<>>)>>]

----------------------------------------------------------------------------
(* Input documents *)

MaxDocs == 2

\* A punctuation mark the parser attached as a passive subject.
Dot == Token(<<".">>, <<".">>, "PUNCT", "PUNCT", "nsubjpass", <<" ">>)

\* ". "
SentDot == <<Dot>>
\* "Gatos ", a fragment the parser read as a passive subject.
SentOne == << Token(<<"G","a","t","o","s">>, <<"g","a","t","o">>, "NOUN", "NOUN", "nsubjpass", <<" ">>) >>
\* "gato corre Rapidamente 42 "
SentRun == << Token(<<"g","a","t","o">>, <<"g","a","t","o">>, "NOUN", "NOUN", "nsubj", <<" ">>),
              Token(<<"c","o","r","r","e">>, <<"c","o","r","r","e","r">>, "VERB", "VERB", "ROOT", <<" ">>),
              Token(<<"R","a","p","i","d","a","m","e","n","t","e">>, <<"r","a","p","i","d","a","m","e","n","t","e">>, "ADV", "ADV", "advmod", <<" ">>),
              Token(<<"4","2">>, <<"4","2">>, "NUM", "NUM", "obl", <<" ">>) >>
\* "Cakes eaten "
SentPassive == << Token(<<"C","a","k","e","s">>, <<"C","a","k","e">>, "NOUN", "NNS", "nsubjpass", <<" ">>),
                  Token(<<"e","a","t","e","n">>, <<"e","a","t">>, "VERB", "VBN", "ROOT", <<" ">>) >>

SentenceSamples == {SentDot, SentOne, SentRun, SentPassive}

\* A Doc: no sentence, one, or two different ones.
DocSamples ==
    {<<>>} \cup {<<a>> : a \in SentenceSamples}
           \cup {pair \in SentenceSamples \X SentenceSamples : pair[1] # pair[2]}

DocumentLists == UNION {[1..n -> DocSamples] : n \in 0..MaxDocs}

\* `for doc in documents: for token in doc`
token_stream(docs) == flatten([d \in 1..Len(docs) |-> flatten(docs[d])])

\* `for doc in documents: for sent in doc.sents`
sentence_stream(docs) == flatten(docs)

\* doc.text
doc_text(doc) == flatten([k \in 1..Len(doc) |-> sent_text(doc[k])])

----------------------------------------------------------------------------
(* State after construction: every accumulator as its function creates it *)

EmptyAccumulators ==
    /\ idx = 1
    /\ full_text = <<>> /\ scorer = NotCalled
    /\ nouns_n_verbs_lemmas = <<>> /\ nouns_n_verbs_examples = <<>>
    /\ adverbs_n_adjectives_lemmas = <<>> /\ adverbs_n_adjectives_examples = <<>>
    /\ sentence_lengths = <<>> /\ openings = <<>> /\ total_tokens = 0
    /\ unique_lemmas = {} /\ passive_sentence_texts = <<>>
    /\ nouns_verbs_count = 0 /\ adjs_advs_count = 0
    /\ avg_len = Unset /\ var_len = Unset /\ var_len_percentage = Unset
    /\ lexical_div = Unset /\ nv_to_aa_ratio = Unset
    /\ result = <<>>

pipelineVars == <<loopVars, aggVars, sentVars, classVars, metricVars,
                  full_text, scorer, result>>

----------------------------------------------------------------------------
(* One token through the three classifiers *)

InitToken ==
    /\ entry = "classify"
    /\ language \in Languages
    /\ documents = <<>>
    /\ pc = "classify"
    /\ token \in TokenUniverse
    /\ verdict = NoVerdict
    /\ EmptyAccumulators

\* The tests the token loops apply to one token.
ClassifyToken ==
    /\ pc = "classify"
    /\ verdict' = [content |-> is_content_word(token),
                   manner  |-> is_adverb_of_manner(token),
                   quality |-> is_adjective_of_quality(token),
                   asked   |-> TRUE]
    /\ pc' = "classified"
    /\ UNCHANGED <<inputVars, pipelineVars, token>>

NextToken == ClassifyToken

SpecToken == InitToken /\ [][NextToken]_vars

----------------------------------------------------------------------------
(* Classifier properties, under SpecToken *)

\* C4: a token that passes the content-word test (coarse tag NOUN or VERB)
\* passes neither is_adverb_of_manner nor is_adjective_of_quality.
C4_ContentWordIsNoDescriptor ==
    (verdict.asked /\ verdict.content) => (~verdict.manner /\ ~verdict.quality)

\* A NOUN or VERB whose surface form and lemma would make an ADV a manner adverb.
C4_Witness ==
    /\ verdict.asked /\ verdict.content
    /\ endswith(lower(token.text), <<"m","e","n","t","e">>)
    /\ lower(token.lemma_) \notin EXCLUDED_MENTE_ADVERBS

\* The suffix and the exclusion list that belong to one language.
MannerSuffix(lang) ==
    IF lang = "pt" THEN <<"m","e","n","t","e">> ELSE <<"l","y">>
MannerExclusions(lang) ==
    IF lang = "pt" THEN EXCLUDED_MENTE_ADVERBS ELSE EXCLUDED_LY_ADVERBS

\* C5 as stated: is_adverb_of_manner is true iff the token is an ADV whose
\* lowercase surface form ends in the ACTIVE language's suffix and whose
\* lowercase lemma is not in that suffix's exclusion set.
C5_ActiveLanguageSuffixOnly ==
    verdict.asked =>
        (verdict.manner <=>
            /\ token.pos_ = "ADV"
            /\ endswith(lower(token.text), MannerSuffix(language))
            /\ lower(token.lemma_) \notin MannerExclusions(language))

\* C5 amended: is_adverb_of_manner is true iff the token is an ADV whose
\* lowercase surface form ends in "mente" or in "ly", whichever language is
\* active, and whose lowercase lemma is not in the exclusion set of the
\* suffix that matched.
C5_EitherSuffix ==
    verdict.asked =>
        (verdict.manner <=>
            /\ token.pos_ = "ADV"
            /\ \E lang \in Languages :
                  /\ endswith(lower(token.text), MannerSuffix(lang))
                  /\ lower(token.lemma_) \notin MannerExclusions(lang))

\* An ADV in "-mente" whose lemma, once lowercased, is on the exclusion list.
C5_Witness ==
    /\ verdict.asked /\ ~verdict.manner
    /\ token.pos_ = "ADV"
    /\ endswith(lower(token.text), <<"m","e","n","t","e">>)
    /\ token.lemma_ \notin EXCLUDED_MENTE_ADVERBS
    /\ lower(token.lemma_) \in EXCLUDED_MENTE_ADVERBS

----------------------------------------------------------------------------
(* The report: main.py's edit_fiction, or metrics.py's                     *)
(* compute_stylistic_metrics called on its own                             *)

Init ==
    /\ entry \in {"edit_fiction", "compute_stylistic_metrics"}
    /\ language = "pt"
    /\ documents \in DocumentLists
    /\ pc = IF entry = "edit_fiction" THEN "nouns_n_verbs" ELSE "analyze_sentences"
    /\ token = NoToken /\ verdict = NoVerdict
    /\ EmptyAccumulators

\* edit_fiction: the NOUN/VERB aggregation pass, one token per step.
ProcessNounOrVerb ==
    /\ pc = "nouns_n_verbs"
    /\ LET tokens == token_stream(documents)
           agg == process_token_for_gramatical_functions(
                      [lemmas |-> nouns_n_verbs_lemmas,
                       word_examples |-> nouns_n_verbs_examples],
                      tokens[idx], {"NOUN", "VERB"})
       IN  /\ idx <= Len(tokens)
           /\ nouns_n_verbs_lemmas' = agg.lemmas
           /\ nouns_n_verbs_examples' = agg.word_examples
    /\ idx' = idx + 1
    /\ UNCHANGED <<inputVars, pc, adverbs_n_adjectives_lemmas,
                   adverbs_n_adjectives_examples, sentVars, classVars, metricVars,
                   full_text, scorer, result, tokenVars>>

NounsAndVerbsDone ==
    /\ pc = "nouns_n_verbs"
    /\ idx > Len(token_stream(documents))
    /\ pc' = "manner_n_quality"
    /\ idx' = 1
    /\ UNCHANGED <<inputVars, aggVars, sentVars, classVars, metricVars,
                   full_text, scorer, result, tokenVars>>

\* edit_fiction: the manner-adverb / quality-adjective aggregation pass.
ProcessMannerOrQuality ==
    /\ pc = "manner_n_quality"
    /\ LET tokens == token_stream(documents)
           agg == process_manner_adverb_or_quality_adjective(
                      [lemmas |-> adverbs_n_adjectives_lemmas,
                       word_examples |-> adverbs_n_adjectives_examples],
                      tokens[idx])
       IN  /\ idx <= Len(tokens)
           /\ adverbs_n_adjectives_lemmas' = agg.lemmas
           /\ adverbs_n_adjectives_examples' = agg.word_examples
    /\ idx' = idx + 1
    /\ UNCHANGED <<inputVars, pc, nouns_n_verbs_lemmas, nouns_n_verbs_examples,
                   sentVars, classVars, metricVars, full_text, scorer, result,
                   tokenVars>>

MannerAndQualityDone ==
    /\ pc = "manner_n_quality"
    /\ idx > Len(token_stream(documents))
    /\ pc' = "analyze_sentences"
    /\ idx' = 1
    /\ UNCHANGED <<inputVars, aggVars, sentVars, classVars, metricVars,
                   full_text, scorer, result, tokenVars>>

\* analyze_sentences, one sentence per step.
AnalyzeSentence ==
    /\ pc = "analyze_sentences"
    /\ idx <= Len(sentence_stream(documents))
    /\ LET acc == analyze_sentence(
                      [sentence_lengths |-> sentence_lengths,
                       openings |-> openings,
                       total_tokens |-> total_tokens,
                       unique_lemmas |-> unique_lemmas,
                       passive_sentence_texts |-> passive_sentence_texts],
                      sentence_stream(documents)[idx])
       IN  /\ sentence_lengths' = acc.sentence_lengths
           /\ openings' = acc.openings
           /\ total_tokens' = acc.total_tokens
           /\ unique_lemmas' = acc.unique_lemmas
           /\ passive_sentence_texts' = acc.passive_sentence_texts
    /\ idx' = idx + 1
    /\ UNCHANGED <<inputVars, pc, aggVars, classVars, metricVars, full_text,
                   scorer, result, tokenVars>>

AnalyzeSentencesDone ==
    /\ pc = "analyze_sentences"
    /\ idx > Len(sentence_stream(documents))
    /\ pc' = "analyze_word_classes"
    /\ idx' = 1
    /\ UNCHANGED <<inputVars, aggVars, sentVars, classVars, metricVars,
                   full_text, scorer, result, tokenVars>>

AnalyzeWordClasses ==
    /\ pc = "analyze_word_classes"
    /\ LET counts == analyze_word_classes(token_stream(documents))
       IN  /\ nouns_verbs_count' = counts.nouns_verbs_count
           /\ adjs_advs_count' = counts.adjs_advs_count
    /\ pc' = "compute_metrics"
    /\ UNCHANGED <<inputVars, loopVars, aggVars, sentVars, metricVars,
                   full_text, scorer, result, tokenVars>>

\* The arithmetic of compute_stylistic_metrics and the two blocks it
\* writes first.  An exception in the arithmetic leaves the function.
ComputeStylisticMetrics ==
    /\ pc = "compute_metrics"
    /\ LET avg   == compute_avg_len(sentence_lengths)
           var   == compute_var_len(sentence_lengths)
           pct   == compute_var_len_percentage(var, avg)
           div   == compute_lexical_div(unique_lemmas, total_tokens)
           ratio == compute_nv_to_aa_ratio(nouns_verbs_count, adjs_advs_count)
           raised == Fault \in {avg, var, pct, div, ratio}
       IN  /\ avg_len' = avg
           /\ var_len' = var
           /\ var_len_percentage' = pct
           /\ lexical_div' = div
           /\ nv_to_aa_ratio' = ratio
           /\ result' = IF raised THEN result
                        ELSE result \o stylistic_metrics_block(avg, var, pct, div, ratio)
                                    \o passive_voice_block(passive_sentence_texts)
           /\ pc' = IF raised THEN "raised"
                    ELSE IF entry = "edit_fiction" THEN "repeated_openings"
                    ELSE "readability"
    /\ full_text' = IF entry = "edit_fiction" THEN full_text
                    ELSE join(<<"\n">>, [d \in 1..Len(documents) |-> doc_text(documents[d])])
    /\ UNCHANGED <<inputVars, loopVars, aggVars, sentVars, classVars, scorer,
                   tokenVars>>

\* main.py: _compute_stylistic_metrics ends with the repeated openings.
FormatRepeatedOpenings ==
    /\ pc = "repeated_openings"
    /\ result' = result \o format_repeated_openings(openings)
    /\ pc' = "word_tables"
    /\ UNCHANGED <<inputVars, loopVars, aggVars, sentVars, classVars, metricVars,
                   full_text, scorer, tokenVars>>

\* main.py: edit_fiction appends the two word tables and returns.
FormatWordTables ==
    /\ pc = "word_tables"
    /\ result' = result
          \o format_word_counts_with_examples(
                 "Nouns and Verbs", Counter(nouns_n_verbs_lemmas),
                 nouns_n_verbs_examples, MIN_COUNT_NOUNS_N_VERBS)
          \o format_word_counts_with_examples(
                 "Manner Adverbs and Quality Adjectives",
                 Counter(adverbs_n_adjectives_lemmas),
                 adverbs_n_adjectives_examples, MIN_COUNT_ADVS_N_ADJS)
    /\ pc' = "done"
    /\ UNCHANGED <<inputVars, loopVars, aggVars, sentVars, classVars, metricVars,
                   full_text, scorer, tokenVars>>

\* metrics.py: compute_stylistic_metrics ends with the readability block.
\* textstat is an external library: any one of its six calls may raise.
ComputeReadability ==
    /\ pc = "readability"
    /\ \E raised_at \in 0..Len(ReadabilityIndices) :
          LET r == compute_readability_metrics(raised_at)
          IN  /\ scorer' = [called |-> TRUE, raised_at |-> raised_at]
              /\ result' = IF r.raised THEN result ELSE result \o r.text
              /\ pc' = IF r.raised THEN "raised" ELSE "done"
    /\ UNCHANGED <<inputVars, loopVars, aggVars, sentVars, classVars, metricVars,
                   full_text, tokenVars>>

Next ==
    \/ ProcessNounOrVerb
    \/ NounsAndVerbsDone
    \/ ProcessMannerOrQuality
    \/ MannerAndQualityDone
    \/ AnalyzeSentence
    \/ AnalyzeSentencesDone
    \/ AnalyzeWordClasses
    \/ ComputeStylisticMetrics
    \/ FormatRepeatedOpenings
    \/ FormatWordTables
    \/ ComputeReadability

Spec == Init /\ [][Next]_vars

----------------------------------------------------------------------------
(* Report properties, under Spec.  What a property expects is counted     *)
(* from `documents`, not read back from the accumulators.                 *)

IsZero(x) == x.kind \in {"num", "root"} /\ x.num = 0

AllTokens    == token_stream(documents)
AllSentences == sentence_stream(documents)

ContentWordCount ==
    LET tokens == AllTokens
    IN  Cardinality({k \in 1..Len(tokens) : tokens[k].pos_ \in {"NOUN", "VERB"}})
DescriptorCount ==
    LET tokens == AllTokens
    IN  Cardinality({k \in 1..Len(tokens) :
                        is_adverb_of_manner(tokens[k]) \/ is_adjective_of_quality(tokens[k])})

\* C1: with no descriptor and at least one content word the ratio is
\* positive infinity; with neither it is 0; otherwise it is the content-word
\* count divided by the descriptor count.  It is never an exception.
C1_RatioFallback ==
    nv_to_aa_ratio # Unset =>
        LET content == ContentWordCount
            descriptors == DescriptorCount
        IN  /\ nv_to_aa_ratio # Fault
            /\ (descriptors = 0 /\ content > 0) => nv_to_aa_ratio = Infinity
            /\ (descriptors = 0 /\ content = 0) => nv_to_aa_ratio = Zero
            /\ descriptors > 0 =>
                  /\ nv_to_aa_ratio.kind = "num"
                  /\ nv_to_aa_ratio.num * descriptors = content * nv_to_aa_ratio.den

\* Content words, no descriptor, and the ratio printed is infinity.
C1_Witness ==
    /\ pc = "done"
    /\ ContentWordCount > 0 /\ DescriptorCount = 0
    /\ nv_to_aa_ratio = Infinity

\* C2: the sentence-length statistics never raise: the mean is 0 with no
\* sentence, the variation is 0 with fewer than two sentences, and the
\* variation percentage is 0 whenever the mean is 0.
C2_SentenceStatisticsNeverRaise ==
    avg_len # Unset =>
        /\ Fault \notin {avg_len, var_len, var_len_percentage}
        /\ pc # "raised"
        /\ Len(AllSentences) = 0 => avg_len = Zero
        /\ Len(AllSentences) < 2 => IsZero(var_len)
        /\ IsZero(avg_len) => IsZero(var_len_percentage)

\* Two or more sentences, every one empty once punctuation is filtered out.
C2_Witness ==
    /\ pc = "done"
    /\ Len(AllSentences) >= 2
    /\ IsZero(avg_len) /\ IsZero(var_len_percentage)

CountedTokens ==
    LET tokens == AllTokens
    IN  {k \in 1..Len(tokens) : ~tokens[k].is_punct /\ ~tokens[k].is_space}
DistinctLemmas ==
    LET tokens == AllTokens
    IN  {lower(tokens[k].lemma_) : k \in {n \in CountedTokens : tokens[n].is_alpha}}

\* C3: the distinct lowercased lemmas never outnumber the counted tokens,
\* and the lexical diversity, their quotient, lies in [0, 1] and is 0 when
\* no token was counted.
C3_LexicalDiversityInUnitInterval ==
    /\ Cardinality(unique_lemmas) <= total_tokens
    /\ lexical_div # Unset =>
          /\ lexical_div.kind = "num"
          /\ 0 <= lexical_div.num /\ lexical_div.num <= lexical_div.den
          /\ LET counted == Cardinality(CountedTokens)
             IN  /\ counted = 0 => lexical_div = Zero
                 /\ lexical_div.num * counted
                       = Cardinality(DistinctLemmas) * lexical_div.den

\* A diversity strictly between 0 and 1.
C3_Witness ==
    /\ pc = "done"
    /\ 0 < lexical_div.num /\ lexical_div.num < lexical_div.den

\* The sections of the report in order of first appearance, the optional
\* passive-voice list left out.
RECURSIVE SectionsOf(_)
SectionsOf(lines) ==
    IF lines = <<>> THEN <<>>
    ELSE LET before == SectionsOf(SubSeq(lines, 1, Len(lines) - 1))
             section == lines[Len(lines)].section
         IN  IF section = "passive" \/ section \in to_set(before)
             THEN before ELSE Append(before, section)

\* C7: every finished report holds, in this order, the stylistic metrics,
\* the repeated openings, the readability indices, the content-word table
\* and the descriptor table.
C7_FixedSectionOrder ==
    pc = "done" =>
        SectionsOf(result) = << "metrics", "openings", "readability", "Nouns and Verbs",
                                "Manner Adverbs and Quality Adjectives" >>

\* C8: a textstat call that raises does not end the report: the step that
\* writes the readability block finishes, leaves every line written before
\* it as it is, and writes the header, one placeholder line and nothing
\* else of the section, whichever call raised.
C8_ScorerFailureIsLocal ==
    [][pc = "readability" =>
          /\ pc' = "done"
          /\ Len(result') > Len(result)
          /\ SubSeq(result', 1, Len(result)) = result
          /\ LET block == SubSeq(result', Len(result) + 1, Len(result'))
             IN  /\ \A k \in 1..Len(block) : block[k].section = "readability"
                 /\ block[1].kind = "header"
                 /\ scorer'.raised_at > 0 =>
                       /\ Len(block) = 3
                       /\ block[2].kind = "placeholder"
                       /\ block[3].kind = "blank"
                 /\ scorer'.raised_at = 0 =>
                       /\ Len(block) = Len(ReadabilityIndices) + 2
                       /\ \A k \in 2..(Len(block) - 1) : block[k].kind = "index"
    ]_vars

\* A finished report with a passive-voice list and a readability placeholder.
C8_Witness ==
    /\ pc = "done"
    /\ scorer.called /\ scorer.raised_at > 0
    /\ passive_sentence_texts # <<>>
    /\ \E k \in 1..Len(result) : result[k].kind = "placeholder"

\* The tokens an aggregation pass has gone through.
NounsAndVerbsSeen ==
    IF entry # "edit_fiction" THEN <<>>
    ELSE IF pc = "nouns_n_verbs" THEN SubSeq(AllTokens, 1, idx - 1)
    ELSE AllTokens
MannerAndQualitySeen ==
    IF entry # "edit_fiction" \/ pc = "nouns_n_verbs" THEN <<>>
    ELSE IF pc = "manner_n_quality" THEN SubSeq(AllTokens, 1, idx - 1)
    ELSE AllTokens

Occurrences(xs, x) == Cardinality({k \in 1..Len(xs) : xs[k] = x})

AggregationMatches(lemmas, word_examples, seen_so_far, Matches(_)) ==
    LET seen == seen_so_far
        matching == {k \in 1..Len(seen) : Matches(seen[k])}
        counter == Counter(lemmas)
    IN
    \A lemma \in {seen[k].lemma_ : k \in 1..Len(seen)}
                   \cup DOMAIN word_examples \cup to_set(lemmas) :
        LET hits == {k \in matching : seen[k].lemma_ = lemma}
            examples == IF lemma \in DOMAIN word_examples
                        THEN word_examples[lemma] ELSE <<>>
        IN  /\ Occurrences(lemmas, lemma) = Cardinality(hits)
            /\ counter_get(counter, lemma) = Cardinality(hits)
            /\ Len(examples) = Cardinality(hits)
            /\ to_set(examples) = {lower(seen[k].text) : k \in hits}
            /\ (examples # <<>>) <=> (Cardinality(hits) >= 1)

IsDescriptor(t) == is_adverb_of_manner(t) \/ is_adjective_of_quality(t)

\* C9: after any prefix of the token stream, in both aggregation passes,
\* a lemma's count is the number of matching tokens of that lemma in the
\* prefix, its examples are the lowercase surface forms of exactly those
\* tokens, and it has an example iff its count is at least 1.
C9_AggregationCountsPrefix ==
    /\ AggregationMatches(nouns_n_verbs_lemmas, nouns_n_verbs_examples,
                          NounsAndVerbsSeen, is_content_word)
    /\ AggregationMatches(adverbs_n_adjectives_lemmas, adverbs_n_adjectives_examples,
                          MannerAndQualitySeen, IsDescriptor)

\* Part-way through the second pass: a NOUN lemma with two surface forms, a
\* descriptor recorded, and tokens the pass went through without recording.
C9_Witness ==
    /\ pc = "manner_n_quality"
    /\ idx <= Len(AllTokens)
    /\ \E lemma \in DOMAIN nouns_n_verbs_examples :
          Cardinality(to_set(nouns_n_verbs_examples[lemma])) >= 2
    /\ adverbs_n_adjectives_lemmas # <<>>
    /\ Len(adverbs_n_adjectives_lemmas) < idx - 1

\* The sentences analyze_sentences has gone through.
SentencesSeen ==
    IF pc \in {"nouns_n_verbs", "manner_n_quality"} THEN <<>>
    ELSE IF pc = "analyze_sentences" THEN SubSeq(AllSentences, 1, idx - 1)
    ELSE AllSentences

Counted(sent) == {k \in 1..Len(sent) : ~sent[k].is_punct /\ ~sent[k].is_space}
Least(S) == CHOOSE k \in S : \A other \in S : k <= other

\* The key the claim gives a sentence that has a counted token.
OpeningKeyOf(sent) ==
    LET first == Least(Counted(sent))
    IN  IF Cardinality(Counted(sent)) >= 2
        THEN lower(sent[first].lemma_) \o <<" ">>
                \o lower(sent[Least(Counted(sent) \ {first})].lemma_)
        ELSE lower(sent[first].lemma_)

\* C10: a sentence with two or more counted tokens adds one to the opening
\* lower(lemma1) + " " + lower(lemma2), a sentence with one adds one to
\* lower(lemma1), a sentence with none adds nothing; so the frequencies sum
\* to the number of sentences that have a counted token.
C10_OpeningKeys ==
    LET seen  == SentencesSeen
        keyed == {k \in 1..Len(seen) : Counted(seen[k]) # {}}
        keys  == [k \in keyed |-> OpeningKeyOf(seen[k])]
    IN  /\ \A key \in counter_keys(openings) \cup {keys[k] : k \in keyed} :
              counter_get(openings, key) = Cardinality({k \in keyed : keys[k] = key})
        /\ sum([k \in 1..Len(openings) |-> openings[k].count]) = Cardinality(keyed)

\* The pass is over and met a sentence of each kind: no counted token,
\* one, and more than one.
C10_Witness ==
    /\ pc = "analyze_word_classes"
    /\ LET sents == AllSentences
       IN  \E a, b, c \in 1..Len(sents) :
              /\ Cardinality(Counted(sents[a])) = 0
              /\ Cardinality(Counted(sents[b])) = 1
              /\ Cardinality(Counted(sents[c])) >= 2

\* The sentence's text without the whitespace at its two ends.
TrimmedText(sent) ==
    LET text  == sent_text(sent)
        marks == {k \in 1..Len(text) : ~isspace(text[k])}
    IN  IF marks = {} THEN <<>>
        ELSE SubSeq(text, Least(marks),
                    CHOOSE k \in marks : \A other \in marks : other <= k)

\* The sentences, by position, that have a counted token whose dependency
\* relation is the passive nominal subject.
PassiveAmong(sents) ==
    {k \in 1..Len(sents) :
        \E n \in Counted(sents[k]) : sents[k][n].dep_ = "nsubjpass"}

\* C11: the passive-sentence list holds one entry, the trimmed text, for
\* each sentence that has a counted (non-punctuation, non-space) token
\* labelled nsubjpass, nothing for any other sentence, and the entries
\* follow the documents and, within a document, its sentences.
C11_PassiveSentenceList ==
    LET seen    == SentencesSeen
        passive == PassiveAmong(seen)
    IN  /\ Len(passive_sentence_texts) = Cardinality(passive)
        /\ \A k \in passive :
              passive_sentence_texts[Cardinality({j \in passive : j <= k})]
                  = TrimmedText(seen[k])

\* The pass is over; it met two passive sentences of different texts, an
\* active sentence with counted tokens, and a sentence whose only nsubjpass
\* token is a punctuation mark.
C11_Witness ==
    /\ pc = "analyze_word_classes"
    /\ Len(passive_sentence_texts) = 2
    /\ passive_sentence_texts[1] # passive_sentence_texts[2]
    /\ LET sents == AllSentences
       IN  \E a, b \in 1..Len(sents) \ PassiveAmong(sents) :
              /\ Counted(sents[a]) # {}
              /\ \E n \in 1..Len(sents[b]) : sents[b][n].dep_ = "nsubjpass"

\* The per-lemma counts of a lemma list, added up.
PerLemmaTotal(lemmas) ==
    LET counter == Counter(lemmas)
    IN  sum([k \in 1..Len(counter) |-> counter[k].count])

\* C12: in edit_fiction, once analyze_word_classes has run, the content-word
\* count it feeds into the ratio is the sum of the per-lemma counts of the
\* NOUN/VERB aggregation pass, and the descriptor count is the sum of the
\* per-lemma counts of the manner-adverb / quality-adjective pass, both
\* passes having read the same documents.
C12_CountsMatchAggregation ==
    (/\ entry = "edit_fiction"
     /\ pc \in {"compute_metrics", "repeated_openings", "word_tables", "done", "raised"}) =>
        /\ nouns_verbs_count = PerLemmaTotal(nouns_n_verbs_lemmas)
        /\ adjs_advs_count = PerLemmaTotal(adverbs_n_adjectives_lemmas)

\* A finished edit_fiction report over documents with a content lemma met
\* more than once, another content lemma, a descriptor, and a token that
\* is neither.
C12_Witness ==
    /\ entry = "edit_fiction" /\ pc = "done"
    /\ adjs_advs_count > 0
    /\ nouns_verbs_count + adjs_advs_count < Len(AllTokens)
    /\ LET counter == Counter(nouns_n_verbs_lemmas)
       IN  /\ Len(counter) >= 2
           /\ \E k \in 1..Len(counter) : counter[k].count >= 2
           /\ nouns_verbs_count > Len(counter)

----------------------------------------------------------------------------
(* format_repeated_openings on its own, over the Counters analyze_sentences *)
(* can build: distinct keys, every count at least 1                        *)

MaxCount == 4

OpeningKeys ==
    { <<"g","a","t","o">>,
      <<"g","a","t","o"," ","c","o","r","r","e","r">>,
      <<"c","a","k","e"," ","e","a","t">> }

CounterSamples ==
    UNION { { c \in [1..n -> [key : OpeningKeys, count : 1..MaxCount]] :
                \A a, b \in 1..n : a # b => c[a].key # c[b].key }
            : n \in 0..Cardinality(OpeningKeys) }

InitOpenings ==
    /\ entry = "format_repeated_openings"
    /\ language = "pt"
    /\ documents = <<>>
    /\ pc = "format_openings"
    /\ token = NoToken /\ verdict = NoVerdict
    /\ idx = 1
    /\ nouns_n_verbs_lemmas = <<>> /\ nouns_n_verbs_examples = <<>>
    /\ adverbs_n_adjectives_lemmas = <<>> /\ adverbs_n_adjectives_examples = <<>>
    /\ sentence_lengths = <<>> /\ total_tokens = 0
    /\ unique_lemmas = {} /\ passive_sentence_texts = <<>>
    /\ openings \in CounterSamples
    /\ nouns_verbs_count = 0 /\ adjs_advs_count = 0
    /\ avg_len = Unset /\ var_len = Unset /\ var_len_percentage = Unset
    /\ lexical_div = Unset /\ nv_to_aa_ratio = Unset
    /\ full_text = <<>> /\ scorer = NotCalled
    /\ result = <<>>

FormatOpenings ==
    /\ pc = "format_openings"
    /\ result' = result \o format_repeated_openings(openings)
    /\ pc' = "formatted"
    /\ UNCHANGED <<inputVars, loopVars, aggVars, sentVars, classVars, metricVars,
                   full_text, scorer, tokenVars>>

NextOpenings == FormatOpenings

SpecOpenings == InitOpenings /\ [][NextOpenings]_vars

\* The entry lines of the repeated-openings block, in output order.
OpeningEntries == SelectSeq(result, LAMBDA l : l.section = "openings" /\ l.kind = "entry")

\* C6: the block lists exactly the openings whose frequency is strictly
\* greater than 2, each once and with its frequency, in non-increasing order
\* of frequency; an opening seen exactly twice is absent, one seen three
\* times or more is present.
C6_RepeatedOpeningsThreshold ==
    pc = "formatted" =>
        /\ \A key \in counter_keys(openings) :
              Cardinality({k \in 1..Len(OpeningEntries) : OpeningEntries[k].data[1] = key})
                 = IF counter_get(openings, key) > 2 THEN 1 ELSE 0
        /\ \A k \in 1..Len(OpeningEntries) :
              /\ OpeningEntries[k].data[1] \in counter_keys(openings)
              /\ OpeningEntries[k].data[2] = counter_get(openings, OpeningEntries[k].data[1])
        /\ \A a, b \in 1..Len(OpeningEntries) :
              a < b => OpeningEntries[a].data[2] >= OpeningEntries[b].data[2]

\* One opening seen exactly twice and left out, two listed, and the more
\* frequent of the two was inserted last yet is listed first.
C6_Witness ==
    /\ pc = "formatted"
    /\ Len(openings) = 3
    /\ openings[1].count = 2 /\ openings[2].count = 3 /\ openings[3].count > 3
    /\ Len(OpeningEntries) = 2
    /\ OpeningEntries[1].data[1] = openings[3].key

====
